---- MODULE Spec2Model ----
(***************************************************************************)
(* A model of bakker's checkpoint core (src/bakker/checkpoint.py) and of   *)
(* its configuration store (src/bakker/config.py).                         *)
(*                                                                         *)
(* Strings are sequences of one-character strings, so that concatenation,  *)
(* splitting, sorting and pattern matching are computed character by       *)
(* character as the Python code computes them.  The 64-bit xxhash digest   *)
(* is modelled by an 8-bit streaming hash rendered as two lowercase hex    *)
(* characters; only hash(a) followed by update(b) = hash(a ++ b) and the   *)
(* hex rendering are relied on.                                            *)
(***************************************************************************)
EXTENDS Integers, Sequences, FiniteSets

VARIABLES
    fs,        \* the filesystem entry at the path given to build_checkpoint
    cp,        \* the Checkpoint returned by the latest successful constructor call
    prev,      \* the Checkpoint returned by the build_checkpoint call before the latest
    raised,    \* the exception raised by the latest call, or "none"
    doc,       \* JSON document (parsed) handed to Checkpoint.from_json
    out,       \* JSON document produced by the latest Checkpoint.to_json
    origin,    \* where cp was constructed from: "none", "fs", "doc", "out", "ctor"
    stack,     \* Checkpoint.iter: the generator's stack
    yielded,   \* Checkpoint.iter: the pairs yielded so far by the current walk
    walk,      \* Checkpoint.iter: "idle", "running" or "done"
    lastWalk,  \* the complete sequence yielded by the previous finished walk
    meta,      \* a CheckpointMeta
    text,      \* the result of CheckpointMeta.to_string
    parsed,    \* the result of CheckpointMeta.from_string
    config,    \* Config.config: the nested dictionary
    configFile,\* the dictionary stored in CONFIG_FILE
    answer     \* the latest Config operation and its outcome

vars == <<fs, cp, prev, raised, doc, out, origin, stack, yielded, walk,
          lastWalk, meta, text, parsed, config, configFile, answer>>

buildVars == <<fs, cp, prev, raised>>
jsonVars == <<doc, out, origin>>
iterVars == <<stack, yielded, walk, lastWalk>>
metaVars == <<meta, text, parsed>>
configVars == <<config, configFile, answer>>

----------------------------------------------------------------------------
(* Bounds of the model *)

\* entries (at any depth) below the root of the filesystem given to a build
MaxEntries == 3

\* records (nodes) in the root representation of a JSON document
MaxDocNodes == 3

\* nodes in a tree that Checkpoint.iter walks
MaxTreeNodes == 4

\* characters in a key given to a Config operation
MaxKeyLen == 3

----------------------------------------------------------------------------
(* Characters and strings *)

\* Unicode code point of the characters the model uses (Python compares and
\* encodes strings by code point)
Ord(c) ==
    CASE c = "\n" -> 10
      [] c = "-" -> 45
      [] c = "." -> 46
      [] c = "/" -> 47
      [] c = "0" -> 48
      [] c = "1" -> 49
      [] c = "2" -> 50
      [] c = "3" -> 51
      [] c = "4" -> 52
      [] c = "5" -> 53
      [] c = "6" -> 54
      [] c = "7" -> 55
      [] c = "8" -> 56
      [] c = "9" -> 57
      [] c = ":" -> 58
      [] c = "T" -> 84
      [] c = "_" -> 95
      [] c = "a" -> 97
      [] c = "b" -> 98
      [] c = "c" -> 99
      [] c = "d" -> 100
      [] c = "e" -> 101
      [] c = "f" -> 102
      [] c = "t" -> 116
      [] c = "u" -> 117
      [] c = "v" -> 118

\* s < t for Python strings: lexicographic by code point
RECURSIVE StrLess(_, _)
StrLess(s, t) ==
    IF t = <<>> THEN FALSE
    ELSE IF s = <<>> THEN TRUE
    ELSE IF Ord(Head(s)) # Ord(Head(t)) THEN Ord(Head(s)) < Ord(Head(t))
    ELSE StrLess(Tail(s), Tail(t))

\* sorted(S) for a finite set S of strings
RECURSIVE SortedStrings(_)
SortedStrings(S) ==
    IF S = {} THEN <<>>
    ELSE LET m == CHOOSE x \in S : \A y \in S \ {x} : StrLess(x, y)
         IN <<m>> \o SortedStrings(S \ {m})

Range(s) == {s[i] : i \in DOMAIN s}

\* s.split(sep, maxsplit): at most maxsplit splits, from the left; all of
\* them when maxsplit is -1
Split(s, sep, maxsplit) ==
    LET RECURSIVE Pieces(_, _, _)
        Pieces(rest, piece, left) ==
            IF rest = <<>> THEN <<piece>>
            ELSE IF Head(rest) = sep /\ left # 0
            THEN <<piece>> \o Pieces(Tail(rest), <<>>, left - 1)
            ELSE Pieces(Tail(rest), Append(piece, Head(rest)), left)
    IN Pieces(s, <<>>, maxsplit)

----------------------------------------------------------------------------
(* xxhash.xxh64: update() and hexdigest() *)

HexChars == <<"0", "1", "2", "3", "4", "5", "6", "7",
              "8", "9", "a", "b", "c", "d", "e", "f">>

\* message.update(data) on hash state h, data a sequence of bytes
RECURSIVE HashUpdate(_, _)
HashUpdate(h, bytes) ==
    IF bytes = <<>> THEN h
    ELSE HashUpdate((h * 33 + Head(bytes) + 1) % 256, Tail(bytes))

\* message.hexdigest()
HexDigest(h) == <<HexChars[(h \div 16) + 1], HexChars[(h % 16) + 1]>>

\* a str passed to update() is hashed as its encoded bytes
Encode(s) == [i \in DOMAIN s |-> Ord(s[i])]

----------------------------------------------------------------------------
(* Values shared by the checkpoint code *)

\* Python's None; distinct from every string, whose elements are single characters
None == <<"None">>

\* the value of a call that returned nothing: a function falling off its end
NoNode == [type |-> "None"]

\* no Checkpoint object has been returned
NoCheckpoint == [root |-> NoNode, time |-> None, name |-> None, exists |-> FALSE]

\* datetime values: the second and microsecond fields vary, the date is fixed
Times == {[sec |-> 0, usec |-> 0], [sec |-> 59, usec |-> 123456]}

\* the values datetime.now() returns in the model
Clock == {[sec |-> 7, usec |-> 0]}

----------------------------------------------------------------------------
(* The filesystem a build reads *)

\* names of directory entries
FileNames == {<<"a">>, <<"b">>}

RegularFile(data) == [kind |-> "file", mode |-> 420, data |-> data]
Fifo == [kind |-> "fifo", mode |-> 420]
Symlink(target, to) == [kind |-> "symlink", mode |-> 511, target |-> target, to |-> to]
EmptyDir == [kind |-> "dir", mode |-> 493, entries |-> <<>>]
Absent == [kind |-> "absent"]

\* what a single creating system call can put at a path; "to" is what the
\* link resolves to: a regular file, a directory, some other kind, or nothing
NewEntries ==
    { RegularFile(<<1>>), RegularFile(<<2, 1>>), Fifo, EmptyDir,
      Symlink(<<"t">>, "file"), Symlink(<<"t">>, "dir"),
      Symlink(<<"u">>, "other"), Symlink(<<"u">>, "none") }

\* the entries found at the path a build is given
RootEntries == NewEntries \cup {Absent}

\* number of entries below e
RECURSIVE EntryCount(_)
EntryCount(e) ==
    IF e.kind # "dir" THEN 0
    ELSE LET S == DOMAIN e.entries
             sizes == [n \in S |-> 1 + EntryCount(e.entries[n])]
             RECURSIVE Sum(_)
             Sum(T) == IF T = {} THEN 0
                       ELSE LET n == CHOOSE x \in T : TRUE
                            IN sizes[n] + Sum(T \ {n})
         IN Sum(S)

\* the paths (sequences of names) of the directories in e
RECURSIVE DirPaths(_)
DirPaths(e) ==
    IF e.kind # "dir" THEN {}
    ELSE {<<>>} \cup UNION { { <<n>> \o p : p \in DirPaths(e.entries[n]) }
                             : n \in DOMAIN e.entries }

\* the entry at path p below e
RECURSIVE EntryAt(_, _)
EntryAt(e, p) == IF p = <<>> THEN e ELSE EntryAt(e.entries[Head(p)], Tail(p))

\* e with entry x added under the name n in the directory at path p
RECURSIVE WithEntry(_, _, _, _)
WithEntry(e, p, n, x) ==
    IF p = <<>>
    THEN [e EXCEPT !.entries =
            [m \in DOMAIN e.entries \cup {n} |->
                IF m = n THEN x ELSE e.entries[m]]]
    ELSE [e EXCEPT !.entries[Head(p)] = WithEntry(e.entries[Head(p)], Tail(p), n, x)]

\* the sequences that enumerate the set S once each
Enumerations(S) ==
    {s \in [1..Cardinality(S) -> S] : Range(s) = S}

\* What one build can observe of e: every directory listed by os.listdir in
\* some order, which the filesystem is free to choose at each directory.
RECURSIVE Listings(_)
Listings(e) ==
    IF e.kind # "dir" THEN {e}
    ELSE LET S == DOMAIN e.entries
             subs == [n \in S |-> Listings(e.entries[n])]
             picks == {g \in [S -> UNION {subs[n] : n \in S}] :
                          \A n \in S : g[n] \in subs[n]}
         IN { [kind |-> "dir", mode |-> e.mode,
               listing |-> [i \in 1..Len(p) |-> [name |-> p[i], entry |-> g[p[i]]]]]
              : p \in Enumerations(S), g \in picks }

\* os.path.islink: lstat says symbolic link
IsLink(e) == e.kind = "symlink"
\* os.path.isfile: stat, which follows links, says regular file
IsFile(e) == e.kind = "file" \/ (e.kind = "symlink" /\ e.to = "file")
\* os.path.isdir: stat, which follows links, says directory
IsDir(e) == e.kind = "dir" \/ (e.kind = "symlink" /\ e.to = "dir")

----------------------------------------------------------------------------
(* The node hierarchy: TreeNode, DirectoryNode, FileNode, SymlinkNode *)

\* A dict is a sequence of [key, node] records with distinct keys, in
\* insertion order, as Python's dict keeps it.
DictKeys(d) == {d[i].key : i \in DOMAIN d}
DictGet(d, k) == (CHOOSE i \in DOMAIN d : d[i].key = k)
DictValue(d, k) == d[DictGet(d, k)].node

\* d[k] = v: a new key is appended, an existing key keeps its position
DictSet(d, k, v) ==
    IF k \in DictKeys(d)
    THEN [d EXCEPT ![DictGet(d, k)] = [key |-> k, node |-> v]]
    ELSE Append(d, [key |-> k, node |-> v])

DirectoryNode(name, checksum, permissions, children) ==
    [type |-> "directory", name |-> name, checksum |-> checksum,
     permissions |-> permissions, children |-> children]
FileNode(name, checksum, permissions) ==
    [type |-> "file", name |-> name, checksum |-> checksum,
     permissions |-> permissions]
SymlinkNode(name, checksum, permissions) ==
    [type |-> "symlink", name |-> name, checksum |-> checksum,
     permissions |-> permissions]

BLOCKSIZE == 65536

\* the read loop of FileNode.build_node: one update per block read
RECURSIVE ReadBlocks(_, _)
ReadBlocks(h, data) ==
    IF Len(data) = 0 THEN h
    ELSE LET n == IF Len(data) < BLOCKSIZE THEN Len(data) ELSE BLOCKSIZE
         IN ReadBlocks(HashUpdate(h, SubSeq(data, 1, n)),
                       SubSeq(data, n + 1, Len(data)))

FileNodeBuild(e, name) ==
    FileNode(name, HexDigest(ReadBlocks(0, e.data)), e.mode)

SymlinkNodeBuild(e, name) ==
    SymlinkNode(name, HexDigest(HashUpdate(0, Encode(e.target))), e.mode)

\* sorted(children.keys())
UnsortedKeys(children) == [i \in DOMAIN children |-> children[i].key]
SortedKeys(children) == SortedStrings(DictKeys(children))

\* the checksum of a directory from its built children
RECURSIVE UpdateAll(_, _)
UpdateAll(h, digests) ==
    IF digests = <<>> THEN h
    ELSE UpdateAll(HashUpdate(h, Encode(Head(digests))), Tail(digests))

DirectoryChecksum(children) ==
    LET keys == SortedKeys(children)
        child_checksums == [i \in DOMAIN keys |-> DictValue(children, keys[i]).checksum]
    IN HexDigest(UpdateAll(0, child_checksums))

RECURSIVE TreeNodeBuild(_, _)
RECURSIVE BuildChildren(_, _)

\* the loop over os.listdir(path) in DirectoryNode.build_node
BuildChildren(listing, children) ==
    IF listing = <<>> THEN children
    ELSE LET child == Head(listing)
         IN IF ~IsFile(child.entry) /\ ~IsDir(child.entry)
            THEN BuildChildren(Tail(listing), children)
            ELSE BuildChildren(Tail(listing),
                     DictSet(children, child.name,
                             TreeNodeBuild(child.entry, child.name)))

DirectoryNodeBuild(e, name) ==
    LET children == BuildChildren(e.listing, <<>>)
    IN DirectoryNode(name, DirectoryChecksum(children), e.mode, children)

\* TreeNode.build_node: the dispatch on the kind of the entry
TreeNodeBuild(e, name) ==
    IF IsLink(e) THEN SymlinkNodeBuild(e, name)
    ELSE IF IsFile(e) THEN FileNodeBuild(e, name)
    ELSE IF IsDir(e) THEN DirectoryNodeBuild(e, name)
    ELSE NoNode

----------------------------------------------------------------------------
(* Checkpoint *)

NameChars ==
    {"a", "b", "c", "d", "e", "f", "t", "u", "v", "T",
     "0", "1", "2", "3", "4", "5", "6", "7", "8", "9", "_", "-", "."}

\* re.match('^[a-zA-Z0-9_\-.]+$', name): the class one or more times from the
\* start, then '$', which matches at the end of the string and also just
\* before a newline that is the last character
ReMatch(name) ==
    \E k \in 1..Len(name) :
        /\ \A i \in 1..k : name[i] \in NameChars
        /\ \/ k = Len(name)
           \/ k = Len(name) - 1 /\ name[Len(name)] = "\n"

\* the assertion of Checkpoint.__init__
NameAccepted(name) == name = None \/ ReMatch(name)

\* the object Checkpoint.__init__ sets up
Checkpoint(root, time, name) ==
    [root |-> root, time |-> time, name |-> name, exists |-> TRUE]

----------------------------------------------------------------------------
(* Building checkpoints from a filesystem *)

\* the names given to build_checkpoint in the model
BuildNames == {None, <<"a", "/", "b">>}

NoDoc == [exists |-> FALSE]
NoMeta == [checksum |-> None, time |-> None, name |-> None, exists |-> FALSE]

JsonIdle == doc = NoDoc /\ out = NoDoc /\ origin = "none"
IterIdle == stack = <<>> /\ yielded = <<>> /\ walk = "idle" /\ lastWalk = <<>>
MetaIdle == meta = NoMeta /\ text = None /\ parsed = NoMeta
NoAnswer == [op |-> "none", key |-> <<>>, result |-> "none"]
EmptyConfig == [t |-> "dict", items |-> <<>>]
ConfigIdle == config = EmptyConfig /\ configFile = EmptyConfig /\ answer = NoAnswer

InitBuild ==
    /\ fs \in RootEntries
    /\ cp = NoCheckpoint
    /\ prev = NoCheckpoint
    /\ raised = "none"
    /\ JsonIdle /\ IterIdle /\ MetaIdle /\ ConfigIdle

\* The filesystem is populated before the builds read it: an entry is
\* created in one of its directories.
Create(p, n, x) ==
    /\ cp = NoCheckpoint /\ raised = "none"
    /\ EntryCount(fs) < MaxEntries
    /\ n \notin DOMAIN EntryAt(fs, p).entries
    /\ fs' = WithEntry(fs, p, n, x)
    /\ UNCHANGED <<cp, prev, raised>>
    /\ UNCHANGED <<jsonVars, iterVars, metaVars, configVars>>

\* Checkpoint.build_checkpoint(path, name), the directories listed as in view
BuildCheckpoint(view, name, now) ==
    LET root == TreeNodeBuild(view, <<>>)
    IN /\ IF NameAccepted(name)
          THEN /\ cp' = Checkpoint(root, now, name)
               /\ prev' = cp
               /\ raised' = "none"
          ELSE /\ raised' = "AssertionError"
               /\ UNCHANGED <<cp, prev>>
       /\ UNCHANGED fs
       /\ UNCHANGED <<jsonVars, iterVars, metaVars, configVars>>

NextBuild ==
    \/ \E p \in DirPaths(fs), n \in FileNames, x \in NewEntries : Create(p, n, x)
    \/ \E view \in Listings(fs), name \in BuildNames, now \in Clock :
          BuildCheckpoint(view, name, now)

SpecBuild == InitBuild /\ [][NextBuild]_vars

----------------------------------------------------------------------------
(* Properties of the builds *)

\* the node reached from node by the child keys p
RECURSIVE NodeAt(_, _)
NodeAt(node, p) ==
    IF p = <<>> THEN node ELSE NodeAt(DictValue(node.children, Head(p)), Tail(p))

\* the (path, checksum) pairs of the directory nodes of a built tree
RECURSIVE DirChecksums(_)
DirChecksums(node) ==
    IF node.type # "directory" THEN {}
    ELSE {<<(<<>>), node.checksum>>} \cup
         UNION { { <<(<<node.children[i].key>> \o pc[1]), pc[2]>>
                   : pc \in DirChecksums(node.children[i].node) }
                 : i \in DOMAIN node.children }

\* C1: two builds of the same directory, whatever the orders in which
\* os.listdir enumerates the directories, give every directory of the tree
\* (the root and the nested ones) the same checksum.
C1_OrderIndependence ==
    (prev.exists /\ cp.exists) => DirChecksums(prev.root) = DirChecksums(cp.root)

\* two builds that enumerated a nested directory, holding children of
\* different checksums, in two different orders
C1_Witness ==
    /\ prev.exists /\ cp.exists
    /\ cp.root.type = "directory" /\ prev.root.type = "directory"
    /\ \E k \in DictKeys(cp.root.children) :
          LET d1 == DictValue(prev.root.children, k)
              d2 == DictValue(cp.root.children, k)
          IN /\ d1.type = "directory" /\ d2.type = "directory"
             /\ Len(d2.children) = 2
             /\ UnsortedKeys(d1.children) # UnsortedKeys(d2.children)
             /\ d2.children[1].node.checksum # d2.children[2].node.checksum

SupportedKinds == {"file", "dir", "symlink"}

\* directory e without its entries of unsupported kinds
WithoutUnsupported(e) ==
    [e EXCEPT !.entries =
        [n \in {m \in DOMAIN e.entries : e.entries[m].kind \in SupportedKinds}
            |-> e.entries[n]]]

\* C6: a directory holding entries that are none of file, directory or
\* symlink is built without error; its children are exactly its supported
\* entries, none of them null, and its checksum is that of the same directory
\* without the unsupported entries.
C6_UnsupportedSkipped ==
    (cp.exists /\ fs.kind = "dir") =>
        \A p \in DirPaths(fs) :
            LET e == EntryAt(fs, p)
                node == NodeAt(cp.root, p)
            IN (\E n \in DOMAIN e.entries : e.entries[n].kind \notin SupportedKinds) =>
                /\ DictKeys(node.children) =
                      {n \in DOMAIN e.entries : e.entries[n].kind \in SupportedKinds}
                /\ \A i \in DOMAIN node.children : node.children[i].node # NoNode
                /\ \A view \in Listings(WithoutUnsupported(e)) :
                      TreeNodeBuild(view, node.name).checksum = node.checksum

\* the node a symlink entry e named n must be represented by
IsSymlinkNodeOf(node, e) ==
    /\ node.type = "symlink"
    /\ node.checksum = HexDigest(HashUpdate(0, Encode(e.target)))

\* C9: every symlink a build reaches, at the root or as a child of a
\* directory at any depth, is in the tree as a Symlink node whose checksum is
\* the hash of its link-target string, whatever the link resolves to.
C9_SymlinkPrecedence ==
    cp.exists =>
        /\ fs.kind = "symlink" => IsSymlinkNodeOf(cp.root, fs)
        /\ \A p \in DirPaths(fs) :
              LET e == EntryAt(fs, p)
                  node == NodeAt(cp.root, p)
              IN \A n \in DOMAIN e.entries :
                    e.entries[n].kind = "symlink" =>
                        /\ n \in DictKeys(node.children)
                        /\ IsSymlinkNodeOf(DictValue(node.children, n), e.entries[n])

\* C10: the root of every Checkpoint that build_checkpoint returns is a
\* Directory, File or Symlink node.
C10_RootPresent ==
    cp.exists => cp.root.type \in {"directory", "file", "symlink"}

----------------------------------------------------------------------------
(* datetime: isoformat() and the parser of ISO strings *)

Digit(n) == HexChars[n + 1]
DigitValue(c) == Ord(c) - 48

\* n in decimal, w characters wide, zero padded
RECURSIVE Decimal(_, _)
Decimal(n, w) == IF w = 0 THEN <<>> ELSE Decimal(n \div 10, w - 1) \o <<Digit(n % 10)>>

\* the value of a string of decimal digits
RECURSIVE DecimalValue(_)
DecimalValue(s) ==
    IF s = <<>> THEN 0
    ELSE 10 * DecimalValue(SubSeq(s, 1, Len(s) - 1)) + DigitValue(s[Len(s)])

\* the date, hour and minute of every datetime of the model
DateHourMinute ==
    <<"2", "0", "2", "4", "-", "0", "1", "-", "0", "1", "T", "0", "0", ":", "0", "0", ":">>

\* datetime.isoformat(): YYYY-MM-DDTHH:MM:SS, followed by .ffffff only when
\* the microsecond is not 0
IsoFormat(t) ==
    DateHourMinute \o Decimal(t.sec, 2)
        \o (IF t.usec = 0 THEN <<>> ELSE <<".">> \o Decimal(t.usec, 6))

\* utils.datetime_from_iso_format: accepts the string with and without the
\* fractional seconds; without them the microsecond is 0
DatetimeFromIsoFormat(s) ==
    [sec |-> DecimalValue(SubSeq(s, 18, 19)),
     usec |-> IF Len(s) = 19 THEN 0 ELSE DecimalValue(SubSeq(s, 21, Len(s)))]

----------------------------------------------------------------------------
(* to_dict and from_dict *)

RECURSIVE ToDict(_)
\* DirectoryNode.to_dict, FileNode.to_dict, SymlinkNode.to_dict
ToDict(node) ==
    IF node.type = "directory"
    THEN [name |-> node.name, checksum |-> node.checksum,
          permissions |-> node.permissions,
          children |-> [i \in DOMAIN node.children |-> ToDict(node.children[i].node)],
          type |-> "directory"]
    ELSE [name |-> node.name, checksum |-> node.checksum,
          permissions |-> node.permissions, type |-> node.type]

\* an exception propagating out of a call
Raise(exc) == [type |-> "raise", exc |-> exc]
Raised(v) == v.type = "raise"

\* d[field] of a JSON object
Has(d, field) == field \in DOMAIN d

RECURSIVE TreeNodeFromDict(_)
RECURSIVE ChildrenFromDict(_, _)

\* the dict comprehension of DirectoryNode.from_dict, child by child; the
\* first exception ends it
ChildrenFromDict(list, children) ==
    IF list = <<>> THEN [type |-> "dict", items |-> children]
    ELSE LET child == Head(list)
         IN IF ~Has(child, "name") THEN Raise("KeyError")
            ELSE LET node == TreeNodeFromDict(child)
                 IN IF Raised(node) THEN node
                    ELSE ChildrenFromDict(Tail(list),
                             DictSet(children, child.name, node))

\* the list s from its last element to its first
Reversed(s) == [i \in DOMAIN s |-> s[Len(s) + 1 - i]]

\* a DirectoryNode.from_dict that goes through d['children'] backwards
DirectoryNodeFromDictBackwards(d) ==
    IF ~Has(d, "name") \/ ~Has(d, "checksum") \/ ~Has(d, "permissions")
          \/ ~Has(d, "children")
    THEN Raise("KeyError")
    ELSE LET children == ChildrenFromDict(Reversed(d.children), <<>>)
         IN IF Raised(children) THEN children
            ELSE DirectoryNode(d.name, d.checksum, d.permissions, children.items)

DirectoryNodeFromDict(d) ==
    IF ~Has(d, "name") \/ ~Has(d, "checksum") \/ ~Has(d, "permissions")
          \/ ~Has(d, "children")
    THEN Raise("KeyError")
    ELSE LET children == ChildrenFromDict(d.children, <<>>)
         IN IF Raised(children) THEN children
            ELSE DirectoryNode(d.name, d.checksum, d.permissions, children.items)

FileNodeFromDict(d) ==
    IF ~Has(d, "name") \/ ~Has(d, "checksum") \/ ~Has(d, "permissions")
    THEN Raise("KeyError")
    ELSE FileNode(d.name, d.checksum, d.permissions)

SymlinkNodeFromDict(d) ==
    IF ~Has(d, "name") \/ ~Has(d, "checksum") \/ ~Has(d, "permissions")
    THEN Raise("KeyError")
    ELSE SymlinkNode(d.name, d.checksum, d.permissions)

\* TreeNode.from_dict: the dispatch on d['type']; the message of the
\* TypeError is built from d['name']
TreeNodeFromDict(d) ==
    IF ~Has(d, "type") THEN Raise("KeyError")
    ELSE IF d.type = "directory" THEN DirectoryNodeFromDict(d)
    ELSE IF d.type = "file" THEN FileNodeFromDict(d)
    ELSE IF d.type = "symlink" THEN SymlinkNodeFromDict(d)
    ELSE IF ~Has(d, "name") THEN Raise("KeyError")
    ELSE Raise("TypeError")

----------------------------------------------------------------------------
(* JSON documents: Checkpoint.from_json and Checkpoint.to_json *)

\* The records a document is made of.  Records of a recognised type carry
\* all their fields; records of an unrecognised type are taken with and
\* without a name.
LeafRecords ==
    { [type |-> t, name |-> n, checksum |-> <<"0", "f">>, permissions |-> 420]
        : t \in {"file", "symlink", "socket"}, n \in FileNames }
    \cup { [type |-> "directory", name |-> n, checksum |-> <<"0", "0">>,
            permissions |-> 493, children |-> <<>>] : n \in FileNames }
    \cup { [type |-> "socket", checksum |-> <<"0", "f">>, permissions |-> 420] }

\* a root record is named ''
RootRecords ==
    { IF Has(r, "name") THEN [r EXCEPT !.name = <<>>] ELSE r : r \in LeafRecords }

\* the time and name fields of the documents
DocTimes == {IsoFormat(t) : t \in Clock}
DocNames == {None, <<"v", "\n">>, <<"a", "/", "b">>}

IsDirRecord(r) == Has(r, "children")

\* number of records in r
RECURSIVE RecordCount(_)
RecordCount(r) ==
    IF ~IsDirRecord(r) THEN 1
    ELSE LET RECURSIVE Sum(_)
             Sum(i) == IF i = 0 THEN 0 ELSE RecordCount(r.children[i]) + Sum(i - 1)
         IN 1 + Sum(Len(r.children))

\* the index paths of the directory records in r
RECURSIVE DirRecordPaths(_)
DirRecordPaths(r) ==
    IF ~IsDirRecord(r) THEN {}
    ELSE {<<>>} \cup UNION { { <<i>> \o p : p \in DirRecordPaths(r.children[i]) }
                             : i \in DOMAIN r.children }

\* r with record x appended to the children of the directory record at path p
RECURSIVE WithChild(_, _, _)
WithChild(r, p, x) ==
    IF p = <<>> THEN [r EXCEPT !.children = Append(@, x)]
    ELSE [r EXCEPT !.children[Head(p)] = WithChild(@, Tail(p), x)]

\* Checkpoint.to_json: the document json.dumps writes
ToJson(c) ==
    [exists |-> TRUE, root |-> ToDict(c.root), time |-> IsoFormat(c.time),
     name |-> c.name]

\* Checkpoint.from_json: the Checkpoint, or the exception raised
FromJson(d) ==
    LET root == TreeNodeFromDict(d.root)
    IN IF Raised(root) THEN root
       ELSE IF ~NameAccepted(d.name) THEN Raise("AssertionError")
       ELSE [type |-> "Checkpoint",
             value |-> Checkpoint(root, DatetimeFromIsoFormat(d.time), d.name)]

InitJson ==
    /\ doc \in { [exists |-> TRUE, root |-> r, time |-> t, name |-> n]
                 : r \in RootRecords, t \in DocTimes, n \in DocNames }
    /\ out = NoDoc
    /\ origin = "none"
    /\ cp = NoCheckpoint
    /\ prev = NoCheckpoint
    /\ raised = "none"
    /\ fs = Absent
    /\ IterIdle /\ MetaIdle /\ ConfigIdle

\* The document is written before it is loaded: a record is appended to the
\* children of one of its directory records.
AddChild(p, x) ==
    /\ ~cp.exists /\ raised = "none"
    /\ RecordCount(doc.root) < MaxDocNodes
    /\ doc' = [doc EXCEPT !.root = WithChild(@, p, x)]
    /\ UNCHANGED <<out, origin, cp, prev, raised, fs>>
    /\ UNCHANGED <<iterVars, metaVars, configVars>>

\* cp = Checkpoint.from_json(d), d the document given or the one to_json wrote
LoadJson(src) ==
    /\ walk # "running"
    /\ src = "out" => out.exists
    /\ LET d == IF src = "doc" THEN doc ELSE out
           r == FromJson(d)
       IN IF Raised(r)
          THEN /\ raised' = r.exc
               /\ UNCHANGED <<cp, prev, origin>>
          ELSE /\ cp' = r.value
               /\ origin' = src
               /\ raised' = "none"
               /\ UNCHANGED prev
    /\ UNCHANGED <<doc, out, fs>>
    /\ UNCHANGED <<iterVars, metaVars, configVars>>

\* out = cp.to_json()
SaveJson ==
    /\ cp.exists
    /\ walk # "running"
    /\ out' = ToJson(cp)
    /\ origin' = "memory"
    /\ UNCHANGED <<doc, cp, prev, raised, fs>>
    /\ UNCHANGED <<iterVars, metaVars, configVars>>

NextJson ==
    \/ \E p \in DirRecordPaths(doc.root), x \in LeafRecords : AddChild(p, x)
    \/ \E src \in {"doc", "out"} : LoadJson(src)
    \/ SaveJson

SpecJson == InitJson /\ [][NextJson]_vars

\* C3: a tree decoded from the representation of a tree T has the
\* representation of T: the same type, name, checksum and permissions at
\* every node and the same children in the same order.
C3_StructuralRoundTrip ==
    (cp.exists /\ origin = "out") => ToDict(cp.root) = out.root

\* a tree with a nested directory and a symlink has gone through to_dict and
\* from_dict
C3_Witness ==
    /\ cp.exists /\ origin = "out"
    /\ cp.root.type = "directory"
    /\ \E i \in DOMAIN cp.root.children :
          /\ cp.root.children[i].node.type = "directory"
          /\ \E j \in DOMAIN cp.root.children[i].node.children :
                cp.root.children[i].node.children[j].node.type = "symlink"

\* C5: every Checkpoint that exists has no name or a non-empty name made of
\* letters, digits, underscore, dot and hyphen only; a call given any other
\* name returns no Checkpoint.
C5_NameValidated ==
    cp.exists =>
        \/ cp.name = None
        \/ Len(cp.name) > 0 /\ \A i \in DOMAIN cp.name : cp.name[i] \in NameChars

\* some record of r has a type that is none of directory, file, symlink
RECURSIVE HasUnknownType(_)
HasUnknownType(r) ==
    \/ r.type \notin {"directory", "file", "symlink"}
    \/ IsDirRecord(r) /\ \E i \in DOMAIN r.children : HasUnknownType(r.children[i])

\* C7: from_json of a document with a record of unrecognised type, at the
\* root or at any depth, returns no Checkpoint and fails with the error for
\* the bad type, whatever the other fields of that record.
C7_UnknownTypeRejected ==
    (HasUnknownType(doc.root) /\ (cp.exists \/ raised # "none")) =>
        ~cp.exists /\ raised = "TypeError"

----------------------------------------------------------------------------
(* Checkpoint.iter *)

\* os.path.join(a, b): an absolute b replaces a; a separator is put between
\* the two unless a is empty or ends with one
PathJoin(a, b) ==
    IF b # <<>> /\ Head(b) = "/" THEN b
    ELSE IF a = <<>> \/ a[Len(a)] = "/" THEN a \o b
    ELSE a \o <<"/">> \o b

\* the for loop of iter: (child, path) pushed for each child, first inserted first
RECURSIVE PushChildrenFrom(_, _, _, _)
PushChildrenFrom(stk, children, path, i) ==
    IF i > Len(children) THEN stk
    ELSE PushChildrenFrom(
             Append(stk, [node |-> children[i].node,
                          path |-> PathJoin(path, children[i].key)]),
             children, path, i + 1)

\* the same loop running over the children from the last to the first
RECURSIVE PushChildrenBackwardsFrom(_, _, _, _)
PushChildrenBackwardsFrom(stk, children, path, i) ==
    IF i < 1 THEN stk
    ELSE PushChildrenBackwardsFrom(
             Append(stk, [node |-> children[i].node,
                          path |-> PathJoin(path, children[i].key)]),
             children, path, i - 1)

PushChildrenBackwards(stk, node, path) ==
    IF node.type = "directory"
    THEN PushChildrenBackwardsFrom(stk, node.children, path, Len(node.children))
    ELSE stk

\* what iter does after a yield: the children of a DirectoryNode are pushed
PushChildren(stk, node, path) ==
    IF node.type = "directory"
    THEN PushChildrenFrom(stk, node.children, path, 1)
    ELSE stk

\* the records of the documents whose trees are walked
TreeRecords ==
    { [type |-> "file", name |-> n, checksum |-> <<"0", "f">>, permissions |-> 420]
        : n \in FileNames }
    \cup { [type |-> "directory", name |-> n, checksum |-> <<"0", "0">>,
            permissions |-> 493, children |-> <<>>] : n \in FileNames }

InitIter ==
    /\ doc \in { [exists |-> TRUE, root |-> [r EXCEPT !.name = <<>>], time |-> t,
                  name |-> None] : r \in TreeRecords, t \in DocTimes }
    /\ out = NoDoc
    /\ origin = "none"
    /\ cp = NoCheckpoint
    /\ prev = NoCheckpoint
    /\ raised = "none"
    /\ fs = Absent
    /\ IterIdle /\ MetaIdle /\ ConfigIdle

\* The document of the tree is written before it is loaded.
GrowTree(p, x) ==
    /\ ~cp.exists /\ raised = "none"
    /\ RecordCount(doc.root) < MaxTreeNodes
    /\ doc' = [doc EXCEPT !.root = WithChild(@, p, x)]
    /\ UNCHANGED <<out, origin, cp, prev, raised, fs>>
    /\ UNCHANGED <<iterVars, metaVars, configVars>>

\* a call of cp.iter(): a new generator, started at the root.  A walk is
\* started when no other walk is under way.
IterStart ==
    /\ cp.exists
    /\ walk # "running"
    /\ stack' = <<[node |-> cp.root, path |-> <<>>]>>
    /\ yielded' = <<>>
    /\ walk' = "running"
    /\ lastWalk' = IF walk = "done" THEN yielded ELSE lastWalk
    /\ UNCHANGED <<buildVars, jsonVars, metaVars, configVars>>

\* next() on the generator: one turn of the while loop (the pushes that
\* follow the yield are taken with it), or the end of the walk
IterNext ==
    /\ walk = "running"
    /\ IF Len(stack) > 0
       THEN LET top == stack[Len(stack)]
                rest == SubSeq(stack, 1, Len(stack) - 1)
            IN /\ yielded' = Append(yielded, top)
               /\ stack' = PushChildren(rest, top.node, top.path)
               /\ UNCHANGED walk
       ELSE /\ walk' = "done"
            /\ UNCHANGED <<stack, yielded>>
    /\ UNCHANGED lastWalk
    /\ UNCHANGED <<buildVars, jsonVars, metaVars, configVars>>

NextIter ==
    \/ \E p \in DirRecordPaths(doc.root), x \in TreeRecords : GrowTree(p, x)
    \/ LoadJson("doc")
    \/ IterStart
    \/ IterNext

\* a generator that is iterated is iterated to its end
SpecIter == InitIter /\ [][NextIter]_vars /\ WF_vars(IterNext)

\* the names joined by '/'
RECURSIVE JoinNames(_)
JoinNames(names) ==
    IF names = <<>> THEN <<>>
    ELSE IF Len(names) = 1 THEN names[1]
    ELSE names[1] \o <<"/">> \o JoinNames(Tail(names))

\* node, then the subtrees of its children from the last inserted to the
\* first; names are the child names from the root to node
RECURSIVE PreorderLastFirst(_, _)
PreorderLastFirst(node, names) ==
    LET RECURSIVE Below(_)
        Below(i) ==
            IF i = 0 THEN <<>>
            ELSE PreorderLastFirst(node.children[i].node,
                                   Append(names, node.children[i].key))
                     \o Below(i - 1)
    IN <<[node |-> node, path |-> JoinNames(names)]>>
           \o (IF node.type = "directory" THEN Below(Len(node.children)) ELSE <<>>)

\* C4: a walk ends; it has then yielded the root first with path "", every
\* node once with the path of the child names leading to it, a directory
\* before its descendants, the children of a directory from the last
\* inserted to the first; and a further walk yields the same sequence.
C4_TraversalOrder ==
    /\ [](walk = "done" =>
            /\ yielded = PreorderLastFirst(cp.root, <<>>)
            /\ lastWalk # <<>> => yielded = lastWalk)
    /\ (walk = "running" ~> walk = "done")

\* a second walk has ended on a tree with two children at the root, one of
\* them a directory with a child
C4_Witness ==
    /\ walk = "done" /\ lastWalk # <<>>
    /\ cp.root.type = "directory"
    /\ Len(cp.root.children) = 2
    /\ \E i \in DOMAIN yielded : Len(yielded[i].path) = 3

----------------------------------------------------------------------------
(* CheckpointMeta *)

CheckpointMeta(checksum, time, name) ==
    [checksum |-> checksum, time |-> time, name |-> name, exists |-> TRUE]

\* CheckpointMeta.to_string
ToString(m) ==
    LET iso == IsoFormat(m.time)
        timestring == iso \o (IF Len(iso) = 19
                              THEN <<".", "0", "0", "0", "0", "0", "0">> ELSE <<>>)
    IN m.checksum \o <<"_">> \o timestring
           \o (IF m.name # None /\ m.name # <<>> THEN <<"_">> \o m.name ELSE <<>>)

\* the strings the parser of ISO strings accepts: the date and time, with or
\* without six digits of microseconds
IsIsoString(s) ==
    /\ Len(s) \in {19, 26}
    /\ SubSeq(s, 1, 17) = DateHourMinute
    /\ \A i \in (18..Len(s)) \ {20} : Ord(s[i]) \in 48..57
    /\ Len(s) = 26 => s[20] = "."

\* a from_string that splits at every underscore
FromStringSplitAll(string) ==
    LET boom == Split(string, "_", -1)
    IN IF Len(boom) < 2 THEN Raise("IndexError")
       ELSE IF ~IsIsoString(boom[2]) THEN Raise("ValueError")
       ELSE [type |-> "CheckpointMeta",
             value |-> CheckpointMeta(boom[1], DatetimeFromIsoFormat(boom[2]),
                                      IF Len(boom) = 2 THEN None ELSE boom[3])]

\* CheckpointMeta.from_string
FromString(string) ==
    LET boom == Split(string, "_", 2)
    IN IF Len(boom) < 2 THEN Raise("IndexError")
       ELSE IF ~IsIsoString(boom[2]) THEN Raise("ValueError")
       ELSE [type |-> "CheckpointMeta",
             value |-> CheckpointMeta(boom[1], DatetimeFromIsoFormat(boom[2]),
                                      IF Len(boom) = 2 THEN None ELSE boom[3])]

MetaChecksums == {<<"0", "f">>, <<"d", "e", "a", "d">>, <<"0", "_", "f">>}
MetaTimes == Times \cup Clock \cup {[sec |-> 30, usec |-> 5]}
MetaNames ==
    {None, <<>>, <<"v", "1">>, <<"_">>, <<"a", "_", "b">>, <<"_", "a", "_">>,
     <<"a", ".", "b", "-", "1">>}

InitMeta ==
    /\ meta \in {CheckpointMeta(c, t, n) :
                    c \in MetaChecksums, t \in MetaTimes, n \in MetaNames}
    /\ text = None
    /\ parsed = NoMeta
    /\ raised = "none"
    /\ fs = Absent /\ cp = NoCheckpoint /\ prev = NoCheckpoint
    /\ JsonIdle /\ IterIdle /\ ConfigIdle

\* text = meta.to_string()
MetaToString ==
    /\ text = None
    /\ text' = ToString(meta)
    /\ UNCHANGED <<meta, parsed>>
    /\ UNCHANGED <<buildVars, jsonVars, iterVars, configVars>>

\* parsed = CheckpointMeta.from_string(text)
MetaFromString ==
    /\ text # None
    /\ LET r == FromString(text)
       IN IF Raised(r)
          THEN raised' = r.exc /\ UNCHANGED parsed
          ELSE parsed' = r.value /\ raised' = "none"
    /\ UNCHANGED <<meta, text>>
    /\ UNCHANGED <<fs, cp, prev, jsonVars, iterVars, configVars>>

NextMeta == MetaToString \/ MetaFromString

SpecMeta == InitMeta /\ [][NextMeta]_vars

IsValidName(name) ==
    Len(name) > 0 /\ \A i \in DOMAIN name : name[i] \in NameChars

\* C2: for a CheckpointMeta whose checksum has no underscore and whose name
\* is None or a valid checkpoint name, from_string(to_string(m)) has the
\* checksum, the time (to the microsecond) and the name of m.
C2_MetaRoundTrip ==
    ( /\ parsed.exists \/ raised # "none"
      /\ "_" \notin Range(meta.checksum)
      /\ meta.name = None \/ IsValidName(meta.name) )
    => /\ parsed.exists
       /\ parsed.checksum = meta.checksum
       /\ parsed.time = meta.time
       /\ parsed.name = meta.name

\* a meta with a whole-second time and a name that starts and ends with an
\* underscore has been encoded and decoded
C2_Witness ==
    /\ parsed.exists
    /\ meta.time.usec = 0
    /\ meta.name = <<"_", "a", "_">>
    /\ "_" \notin Range(meta.checksum)
    /\ Len(text) = Len(meta.checksum) + 27 + 4

----------------------------------------------------------------------------
(* Config *)

\* A JSON value of the configuration: a string or a dictionary
StrValue(v) == [t |-> "str", v |-> v]
DictOf(items) == [t |-> "dict", items |-> items]
IsStr(x) == x.t = "str"

\* d with d[k] = x
WithItem(d, k, x) ==
    DictOf([m \in DOMAIN d.items \cup {k} |-> IF m = k THEN x ELSE d.items[m]])

\* d after del d[k]
WithoutItem(d, k) ==
    DictOf([m \in DOMAIN d.items \ {k} |-> d.items[m]])

\* The loop and the assignment of Config.__setitem__ from the dictionary
\* current on; the result is the dictionary as the call leaves it and the
\* exception it raised, if any.
RECURSIVE SetIn(_, _, _)
SetIn(current, keys, value) ==
    IF Len(keys) = 1
    THEN IF IsStr(current)
         THEN [d |-> current, exc |-> "TypeError"]
         ELSE [d |-> WithItem(current, keys[1], StrValue(value)), exc |-> "none"]
    ELSE IF IsStr(current)
         THEN [d |-> current, exc |-> "AttributeError"]
         ELSE LET next == IF keys[1] \in DOMAIN current.items
                          THEN current.items[keys[1]] ELSE EmptyConfig
                  r == SetIn(next, Tail(keys), value)
              IN [d |-> WithItem(current, keys[1], r.d), exc |-> r.exc]

\* del_dict_item of Config.__delitem__
RECURSIVE DelDictItem(_, _)
DelDictItem(d, keys) ==
    IF IsStr(d) THEN [d |-> d, exc |-> "TypeError"]
    ELSE IF keys[1] \notin DOMAIN d.items THEN [d |-> d, exc |-> "KeyError"]
    ELSE IF Len(keys) > 1
    THEN LET r == DelDictItem(d.items[keys[1]], Tail(keys))
         IN IF r.exc # "none" THEN [d |-> d, exc |-> r.exc]
            ELSE IF Cardinality(DOMAIN r.d.items) = 0
            THEN [d |-> WithoutItem(d, keys[1]), exc |-> "none"]
            ELSE [d |-> WithItem(d, keys[1], r.d), exc |-> "none"]
    ELSE [d |-> WithoutItem(d, keys[1]), exc |-> "none"]

\* Config.__getitem__: the string found, or the exception raised
RECURSIVE GetFrom(_, _)
GetFrom(current, keys) ==
    IF keys = <<>>
    THEN IF ~IsStr(current) THEN Raise("KeyError")
         ELSE [type |-> "str", value |-> current.v]
    ELSE IF IsStr(current) THEN Raise("TypeError")
    ELSE IF keys[1] \notin DOMAIN current.items THEN Raise("KeyError")
    ELSE GetFrom(current.items[keys[1]], Tail(keys))

GetItem(c, key) == GetFrom(c, Split(key, ".", -1))

\* Config.__contains__: only KeyError is caught
Contains(c, key) ==
    LET r == GetItem(c, key)
    IN IF ~Raised(r) THEN "True"
       ELSE IF r.exc = "KeyError" THEN "False"
       ELSE r.exc

\* the keys given to the Config operations: segments of a's separated by dots
RECURSIVE KeysOfLength(_)
KeysOfLength(n) ==
    IF n = 0 THEN {<<>>}
    ELSE {Append(k, c) : k \in KeysOfLength(n - 1), c \in {"a", "."}}

ConfigKeys == UNION {KeysOfLength(n) : n \in 1..MaxKeyLen}

InitConfig ==
    /\ config = EmptyConfig
    /\ configFile = EmptyConfig
    /\ answer = NoAnswer
    /\ fs = Absent /\ cp = NoCheckpoint /\ prev = NoCheckpoint /\ raised = "none"
    /\ JsonIdle /\ IterIdle /\ MetaIdle

\* config[key] = value, with the _save() that ends it
ConfigSetItem(key, value) ==
    /\ LET r == SetIn(config, Split(key, ".", -1), value)
       IN /\ config' = r.d
          /\ configFile' = IF r.exc = "none" THEN r.d ELSE configFile
          /\ answer' = [op |-> "setitem", key |-> key, result |-> r.exc]
    /\ UNCHANGED <<buildVars, jsonVars, iterVars, metaVars>>

\* del config[key], with the _save() that ends it
ConfigDelItem(key) ==
    /\ LET r == DelDictItem(config, Split(key, ".", -1))
       IN /\ config' = r.d
          /\ configFile' = IF r.exc = "none" THEN r.d ELSE configFile
          /\ answer' = [op |-> "delitem", key |-> key, result |-> r.exc]
    /\ UNCHANGED <<buildVars, jsonVars, iterVars, metaVars>>

\* key in config
ConfigContains(key) ==
    /\ answer' = [op |-> "contains", key |-> key, result |-> Contains(config, key)]
    /\ UNCHANGED <<config, configFile>>
    /\ UNCHANGED <<buildVars, jsonVars, iterVars, metaVars>>

NextConfig ==
    \/ \E key \in ConfigKeys : ConfigSetItem(key, <<"v">>)
    \/ \E key \in ConfigKeys : ConfigDelItem(key)
    \/ \E key \in ConfigKeys : ConfigContains(key)

SpecConfig == InitConfig /\ [][NextConfig]_vars

\* the path keys leads from d to a stored string
RECURSIVE LeadsToString(_, _)
LeadsToString(d, keys) ==
    IF keys = <<>> THEN IsStr(d)
    ELSE /\ ~IsStr(d)
         /\ keys[1] \in DOMAIN d.items
         /\ LeadsToString(d.items[keys[1]], Tail(keys))

\* C8: in every configuration reached by __setitem__ and __delitem__ calls,
\* key in config is True when the key path leads to a stored string and
\* False otherwise; it never raises.
C8_ContainsTotal ==
    answer.op = "contains" =>
        answer.result = IF LeadsToString(config, Split(answer.key, ".", -1))
                        THEN "True" ELSE "False"

====
